---------------------------- MODULE Spec2Model ----------------------------
(***************************************************************************)
(* Model of the cmlterm terminal-emulator backend:                         *)
(*   src/terminal_emulator/ansi.rs  - AnsiParser / CsiParser               *)
(*   src/terminal_emulator/mod.rs   - ColorTracker and TerminalEmulator    *)
(*                                                                         *)
(* Bytes are the integers 0..255.  Option<T> is a sequence of length <= 1  *)
(* (<<>> is None, <<v>> is Some(v)).  usize is modelled at 8 bits          *)
(* (UsizeMax = 255 stands for usize::MAX); arithmetic that can leave the   *)
(* range panics when the build has overflow checks and wraps otherwise.    *)
(***************************************************************************)
EXTENDS Integers, Sequences, FiniteSets, TLC

VARIABLES
    output_buf,      \* TerminalEmulator.output_buf : the AnsiParser (its `inner`)
    buf,             \* TerminalEmulator.buf        : Vec<u8>
    color_tracker,   \* TerminalEmulator.color_tracker.color_info : Vec<ColorTag>
    cursor_pos,      \* TerminalEmulator.cursor_pos : CursorState
    panic,           \* "none", or the fatal abort the process died of
    overflow_checks, \* build mode: TRUE = arithmetic overflow panics, FALSE = wraps
    fed,             \* history: every byte pushed into the parser so far
    emitted,         \* history: every TerminalOutput returned so far, in order
    last,            \* history: the last operation performed and its input
    painted,         \* history: reference colouring, offset -> colour
    applied,         \* history: the kinds of operation performed so far
    nreads,          \* history: number of counted calls so far
    before,          \* history: the emulator state the last chunk was applied to
    read_ret         \* read(): where the call stands, and its local `ret`

vars == <<output_buf, buf, color_tracker, cursor_pos, panic, overflow_checks,
          fed, emitted, last, painted, applied, nreads, before, read_ret>>

----------------------------------------------------------------------------
(* Program constants *)

UsizeMax == 255
ESC == 27
LBRACKET == 91
SEMICOLON == 59
NEWLINE == 10
CH_H == 72
CH_G == 71
CH_J == 74
CH_m == 109

\* a statement sequence `let x = v; F(x)`: v is computed once, then F runs on it
Bind(v, F(_)) == CHOOSE r \in {F(x) : x \in {v}} : TRUE

----------------------------------------------------------------------------
(* ansi.rs : SelectGraphicRendition and TerminalOutput *)

Rendition(name) == [name |-> name, val |-> 0]
Unknown(v) == [name |-> "Unknown", val |-> v]

from_usize(val) ==
    CASE val = 0 -> Rendition("Reset")
      [] val = 30 -> Rendition("Black")
      [] val = 31 -> Rendition("Red")
      [] val = 32 -> Rendition("Green")
      [] val = 33 -> Rendition("Yellow")
      [] val = 34 -> Rendition("Blue")
      [] val = 35 -> Rendition("Magenta")
      [] val = 36 -> Rendition("Cyan")
      [] val = 37 -> Rendition("White")
      [] val = 90 -> Rendition("BrightBlack")
      [] val = 91 -> Rendition("BrightRed")
      [] val = 92 -> Rendition("BrightGreen")
      [] val = 93 -> Rendition("BrightYellow")
      [] val = 94 -> Rendition("BrightBlue")
      [] val = 95 -> Rendition("BrightMagenta")
      [] val = 96 -> Rendition("BrightCyan")
      [] val = 97 -> Rendition("BrightWhite")
      [] OTHER -> Unknown(val)

Data(d) == [type |-> "Data", data |-> d]
SetCursorPos(x, y) == [type |-> "SetCursorPos", x |-> x, y |-> y]
ClearForwards == [type |-> "ClearForwards"]
ClearBackwards == [type |-> "ClearBackwards"]
ClearAll == [type |-> "ClearAll"]
Sgr(r) == [type |-> "Sgr", sgr |-> r]
Invalid == [type |-> "Invalid"]

----------------------------------------------------------------------------
(* ansi.rs : byte classes and parameter parsing *)

\* variant of is_csi_terminator: 0x7E counted as a terminator
is_csi_terminator_Through7E(b) == 64 <= b /\ b <= 126

is_csi_terminator(b) == 64 <= b /\ b <= 125
is_csi_param(b) == 48 <= b /\ b <= 63
is_csi_intermediate(b) == 32 <= b /\ b <= 47

\* str::parse::<usize> on a non-empty ASCII string: every byte must be a digit
\* and the value must fit usize; -1 stands for Err.  (A leading '+' is accepted
\* by Rust but 0x2B is never stored in `params`.)
RECURSIVE parse_usize(_, _)
parse_usize(acc, bytes) ==
    IF bytes = <<>> THEN acc
    ELSE LET b == Head(bytes) IN
         IF b < 48 \/ b > 57 THEN -1
         ELSE LET v == acc * 10 + (b - 48) IN
              IF v > UsizeMax THEN -1 ELSE parse_usize(v, Tail(bytes))

\* Result<Option<usize>, ()> as [ok, val]
parse_param_as_usize(param_bytes) ==
    IF param_bytes = <<>> THEN [ok |-> TRUE, val |-> <<>>]
    ELSE LET v == parse_usize(0, param_bytes) IN
         IF v < 0 THEN [ok |-> FALSE, val |-> <<>>]
         ELSE [ok |-> TRUE, val |-> <<v>>]

\* slice::split(|b| *b == b';') : the pieces between semicolons (always >= 1 piece)
RECURSIVE split_semicolon(_, _, _)
split_semicolon(bytes, cur, acc) ==
    IF bytes = <<>> THEN Append(acc, cur)
    ELSE IF Head(bytes) = SEMICOLON
         THEN split_semicolon(Tail(bytes), <<>>, Append(acc, cur))
         ELSE split_semicolon(Tail(bytes), Append(cur, Head(bytes)), acc)

\* Result<Vec<Option<usize>>, ()> as [ok, vals]
split_params_into_semicolon_delimited_usize(params) ==
    LET pieces == split_semicolon(params, <<>>, <<>>)
        parsed == [i \in 1..Len(pieces) |-> parse_param_as_usize(pieces[i])]
    IN IF \E i \in 1..Len(pieces) : ~parsed[i].ok
       THEN [ok |-> FALSE, vals |-> <<>>]
       ELSE [ok |-> TRUE, vals |-> [i \in 1..Len(pieces) |-> parsed[i].val]]

\* params.get(idx).copied().flatten(), idx 0-based
extract_param(idx, params) ==
    IF idx + 1 <= Len(params) THEN params[idx + 1] ELSE <<>>

unwrap_or(opt, default) == IF opt = <<>> THEN default ELSE opt[1]

----------------------------------------------------------------------------
(* ansi.rs : CsiParser *)

CsiParserNew ==
    [state |-> "Params", fin |-> 0, params |-> <<>>, intermediates |-> <<>>]

\* state "Panicked" stands for the panic!() of a push after Finished/InvalidFinished
CsiParserPush(p, b) ==
    IF p.state \in {"Finished", "InvalidFinished"}
    THEN [p EXCEPT !.state = "Panicked"]
    ELSE CASE p.state = "Params" ->
                IF is_csi_param(b) THEN [p EXCEPT !.params = Append(@, b)]
                ELSE IF is_csi_intermediate(b)
                     THEN [p EXCEPT !.intermediates = Append(@, b),
                                    !.state = "Intermediates"]
                ELSE IF is_csi_terminator(b)
                     THEN [p EXCEPT !.state = "Finished", !.fin = b]
                ELSE [p EXCEPT !.state = "Invalid"]
           [] p.state = "Intermediates" ->
                IF is_csi_param(b) THEN [p EXCEPT !.state = "Invalid"]
                ELSE IF is_csi_intermediate(b)
                     THEN [p EXCEPT !.intermediates = Append(@, b)]
                ELSE IF is_csi_terminator(b)
                     THEN [p EXCEPT !.state = "Finished", !.fin = b]
                ELSE [p EXCEPT !.state = "Invalid"]
           [] p.state = "Invalid" ->
                IF is_csi_terminator(b) THEN [p EXCEPT !.state = "InvalidFinished"]
                ELSE p
           [] OTHER -> p

----------------------------------------------------------------------------
(* ansi.rs : AnsiParser *)

InnerEmpty == [tag |-> "Empty", csi |-> CsiParserNew]
InnerEscape == [tag |-> "Escape", csi |-> CsiParserNew]
InnerCsi(parser) == [tag |-> "Csi", csi |-> parser]

AnsiParserNew == InnerEmpty

\* variant of FinishedH: the first parameter taken as the row and the second as
\* the column (the usual ANSI order)
FinishedH_RowFirst(parser) ==
    LET params == split_params_into_semicolon_delimited_usize(parser.params) IN
    IF ~params.ok THEN <<Invalid>>
    ELSE <<SetCursorPos(<<unwrap_or(extract_param(1, params.vals), 1)>>,
                        <<unwrap_or(extract_param(0, params.vals), 1)>>)>>

\* Finished(b'H')
FinishedH(parser) ==
    LET params == split_params_into_semicolon_delimited_usize(parser.params) IN
    IF ~params.ok THEN <<Invalid>>
    ELSE <<SetCursorPos(<<unwrap_or(extract_param(0, params.vals), 1)>>,
                        <<unwrap_or(extract_param(1, params.vals), 1)>>)>>

\* Finished(b'G')
FinishedG(parser) ==
    LET param == parse_param_as_usize(parser.params) IN
    IF ~param.ok THEN <<Invalid>>
    ELSE <<SetCursorPos(<<unwrap_or(param.val, 1)>>, <<>>)>>

\* variant of FinishedJ: the `2 | 3` arm reduced to `2`
FinishedJ_Only2(parser) ==
    LET param == parse_param_as_usize(parser.params) IN
    IF ~param.ok THEN <<Invalid>>
    ELSE LET v == unwrap_or(param.val, 0) IN
         IF v = 0 THEN <<ClearForwards>>
         ELSE IF v = 1 THEN <<ClearBackwards>>
         ELSE IF v = 2 THEN <<ClearAll>>
         ELSE <<Invalid>>

\* Finished(b'J')
FinishedJ(parser) ==
    LET param == parse_param_as_usize(parser.params) IN
    IF ~param.ok THEN <<Invalid>>
    ELSE LET v == unwrap_or(param.val, 0) IN
         IF v = 0 THEN <<ClearForwards>>
         ELSE IF v = 1 THEN <<ClearBackwards>>
         ELSE IF v = 2 \/ v = 3 THEN <<ClearAll>>
         ELSE <<Invalid>>

\* the `for param in params` loop of Finished(b'm'): None entries are skipped
RECURSIVE SgrLoop(_)
SgrLoop(params) ==
    IF params = <<>> THEN <<>>
    ELSE IF Head(params) = <<>> THEN SgrLoop(Tail(params))
    ELSE <<Sgr(from_usize(Head(params)[1]))>> \o SgrLoop(Tail(params))

\* Finished(b'm')
FinishedM(parser) ==
    LET params == split_params_into_semicolon_delimited_usize(parser.params) IN
    IF ~params.ok THEN <<Invalid>>
    ELSE LET p1 == IF params.vals = <<>> THEN << <<0>> >> ELSE params.vals
             p2 == IF Len(p1) = 1 /\ p1[1] = <<>> THEN << <<0>> >> ELSE p1
         IN SgrLoop(p2)

\* the operations pushed for a CsiParser that reached Finished(fin)
CsiFinished(parser) ==
    CASE parser.fin = CH_H -> FinishedH(parser)
      [] parser.fin = CH_G -> FinishedG(parser)
      [] parser.fin = CH_J -> FinishedJ(parser)
      [] parser.fin = CH_m -> FinishedM(parser)
      [] OTHER -> <<Invalid>>

\* variant of FlushData: the pending bytes are cloned instead of taken
FlushData_Clone(acc) ==
    IF acc.data_output # <<>>
    THEN [acc EXCEPT !.output = Append(@, Data(acc.data_output))]
    ELSE acc

\* data flush at the top of the Escape arm
FlushData(acc) ==
    IF acc.data_output # <<>>
    THEN [acc EXCEPT !.output = Append(@, Data(acc.data_output)),
                     !.data_output = <<>>]
    ELSE acc

\* variant of PushByte: an unrecognized escape reported as Invalid
PushByte_EscapeInvalid(acc, b) ==
    IF acc.panic THEN acc
    ELSE CASE acc.inner.tag = "Empty" ->
                IF b = ESC THEN [acc EXCEPT !.inner = InnerEscape]
                ELSE [acc EXCEPT !.data_output = Append(@, b)]
           [] acc.inner.tag = "Escape" ->
                IF b = LBRACKET
                THEN [FlushData(acc) EXCEPT !.inner = InnerCsi(CsiParserNew)]
                ELSE [FlushData(acc) EXCEPT !.inner = InnerEmpty,
                                            !.output = Append(@, Invalid)]
           [] acc.inner.tag = "Csi" ->
                LET parser == CsiParserPush(acc.inner.csi, b) IN
                IF parser.state = "Panicked" THEN [acc EXCEPT !.panic = TRUE]
                ELSE IF parser.state = "Finished"
                     THEN [acc EXCEPT !.output = @ \o CsiFinished(parser),
                                      !.inner = InnerEmpty]
                ELSE IF parser.state = "Invalid"
                     THEN [acc EXCEPT !.output = Append(@, Invalid),
                                      !.inner = InnerEmpty]
                ELSE [acc EXCEPT !.inner = InnerCsi(parser)]

\* variant of PushByte: a finished sequence is emitted but the parser stays in Csi
PushByte_CsiKept(acc, b) ==
    IF acc.panic THEN acc
    ELSE CASE acc.inner.tag = "Empty" ->
                IF b = ESC THEN [acc EXCEPT !.inner = InnerEscape]
                ELSE [acc EXCEPT !.data_output = Append(@, b)]
           [] acc.inner.tag = "Escape" ->
                IF b = LBRACKET
                THEN [FlushData(acc) EXCEPT !.inner = InnerCsi(CsiParserNew)]
                ELSE [FlushData(acc) EXCEPT !.inner = InnerEmpty]
           [] acc.inner.tag = "Csi" ->
                LET parser == CsiParserPush(acc.inner.csi, b) IN
                IF parser.state = "Panicked" THEN [acc EXCEPT !.panic = TRUE]
                ELSE IF parser.state = "Finished"
                     THEN [acc EXCEPT !.output = @ \o CsiFinished(parser),
                                      !.inner = InnerCsi(parser)]
                ELSE IF parser.state = "Invalid"
                     THEN [acc EXCEPT !.output = Append(@, Invalid),
                                      !.inner = InnerEmpty]
                ELSE [acc EXCEPT !.inner = InnerCsi(parser)]

\* one iteration of `for b in incoming`; acc = [inner, output, data_output, panic]
PushByte(acc, b) ==
    IF acc.panic THEN acc
    ELSE CASE acc.inner.tag = "Empty" ->
                IF b = ESC THEN [acc EXCEPT !.inner = InnerEscape]
                ELSE [acc EXCEPT !.data_output = Append(@, b)]
           [] acc.inner.tag = "Escape" ->
                IF b = LBRACKET
                THEN [FlushData(acc) EXCEPT !.inner = InnerCsi(CsiParserNew)]
                ELSE [FlushData(acc) EXCEPT !.inner = InnerEmpty]
           [] acc.inner.tag = "Csi" ->
                LET parser == CsiParserPush(acc.inner.csi, b) IN
                IF parser.state = "Panicked" THEN [acc EXCEPT !.panic = TRUE]
                ELSE IF parser.state = "Finished"
                     THEN [acc EXCEPT !.output = @ \o CsiFinished(parser),
                                      !.inner = InnerEmpty]
                ELSE IF parser.state = "Invalid"
                     THEN [acc EXCEPT !.output = Append(@, Invalid),
                                      !.inner = InnerEmpty]
                ELSE [acc EXCEPT !.inner = InnerCsi(parser)]

RECURSIVE PushBytes(_, _)
PushBytes(acc, incoming) ==
    IF incoming = <<>> THEN acc
    ELSE Bind(PushByte(acc, Head(incoming)),
              LAMBDA next : PushBytes(next, Tail(incoming)))

\* variant of AnsiParserPush: every call starts from Empty, dropping the
\* sequence in progress
AnsiParserPush_Stateless(inner, incoming) ==
    Bind(PushBytes([inner |-> InnerEmpty, output |-> <<>>,
                    data_output |-> <<>>, panic |-> FALSE], incoming),
         LAMBDA acc :
             Bind(IF acc.panic THEN acc ELSE FlushData(acc),
                  LAMBDA fin : [inner |-> fin.inner, output |-> fin.output,
                                panic |-> fin.panic]))

\* variant of AnsiParserPush: the literal run pending at the end of a call is
\* dropped instead of flushed
AnsiParserPush_NoFinalFlush(inner, incoming) ==
    Bind(PushBytes([inner |-> inner, output |-> <<>>,
                    data_output |-> <<>>, panic |-> FALSE], incoming),
         LAMBDA fin : [inner |-> fin.inner, output |-> fin.output,
                       panic |-> fin.panic])

\* AnsiParser::push : [inner, output, panic]
AnsiParserPush(inner, incoming) ==
    Bind(PushBytes([inner |-> inner, output |-> <<>>,
                    data_output |-> <<>>, panic |-> FALSE], incoming),
         LAMBDA acc :
             Bind(IF acc.panic THEN acc ELSE FlushData(acc),
                  LAMBDA fin : [inner |-> fin.inner, output |-> fin.output,
                                panic |-> fin.panic]))

----------------------------------------------------------------------------
(* mod.rs : colour ranges.  A Range<usize> is [start, end]. *)

Range(s, e) == [start |-> s, end |-> e]
ColorTag(s, e, c) == [start |-> s, end |-> e, color |-> c]

\* variant of ranges_overlap: the ends compared as if they were inclusive
ranges_overlap_Inclusive(a, b) ==
    IF a.end < b.start THEN FALSE
    ELSE IF a.start > b.end THEN FALSE
    ELSE TRUE

ranges_overlap(a, b) ==
    IF a.end <= b.start THEN FALSE
    ELSE IF a.start >= b.end THEN FALSE
    ELSE TRUE

range_fully_conatins(a, b) == a.start <= b.start /\ a.end >= b.end

range_starts_overlapping(a, b) == a.start > b.start /\ a.end > b.end

\* variant of range_ends_overlapping: the arguments not swapped
range_ends_overlapping_NotSwapped(a, b) == range_starts_overlapping(a, b)

range_ends_overlapping(a, b) == range_starts_overlapping(b, a)

\* returns the mutated element, the ColorRangeAdjustment and whether it panicked
adjust_existing_color_range(existing_elem, range) ==
    LET existing_range == Range(existing_elem.start, existing_elem.end)
        ret == [elem |-> existing_elem, should_delete |-> FALSE,
                to_insert |-> <<>>, panic |-> FALSE]
    IN IF range_fully_conatins(range, existing_range)
       THEN [ret EXCEPT !.should_delete = TRUE]
       ELSE IF range_fully_conatins(existing_range, range)
       THEN [ret EXCEPT
                !.should_delete = (existing_elem.start = range.start),
                !.to_insert = IF range.end # existing_elem.end
                              THEN <<ColorTag(range.end, existing_elem.end,
                                              existing_elem.color)>>
                              ELSE <<>>,
                !.elem = [existing_elem EXCEPT !.end = range.start]]
       ELSE IF range_starts_overlapping(range, existing_range)
       THEN [ret EXCEPT
                !.elem = [existing_elem EXCEPT !.end = range.start],
                !.should_delete = (existing_elem.start = range.start)]
       ELSE IF range_ends_overlapping(range, existing_range)
       THEN [ret EXCEPT
                !.elem = [existing_elem EXCEPT !.start = range.end],
                !.should_delete = (range.end = existing_elem.end)]
       ELSE [ret EXCEPT !.panic = TRUE]

\* variant of delete_items_from_vec: nothing is removed
delete_items_from_vec_KeepAll(to_delete, vec) == vec

\* delete_items_from_vec: remove the listed (1-based) indexes
delete_items_from_vec(to_delete, vec) ==
    LET keep == {i \in 1..Len(vec) : i \notin to_delete}
        RECURSIVE Build(_)
        Build(i) == IF i > Len(vec) THEN <<>>
                    ELSE IF i \in keep THEN <<vec[i]>> \o Build(i + 1)
                    ELSE Build(i + 1)
    IN Build(1)

\* [color_info, panic]
adjust_existing_color_ranges(existing, range) ==
    LET effected == {i \in 1..Len(existing) :
                        ranges_overlap(Range(existing[i].start, existing[i].end), range)}
        adj == [i \in effected |-> adjust_existing_color_range(existing[i], range)]
        mutated == [i \in 1..Len(existing) |->
                        IF i \in effected THEN adj[i].elem ELSE existing[i]]
        to_delete == {i \in effected : adj[i].should_delete}
        RECURSIVE ToPush(_)
        ToPush(i) == IF i > Len(existing) THEN <<>>
                     ELSE IF i \in effected THEN adj[i].to_insert \o ToPush(i + 1)
                     ELSE ToPush(i + 1)
    IN IF \E i \in effected : adj[i].panic
       THEN [color_info |-> existing, panic |-> TRUE]
       ELSE [color_info |-> delete_items_from_vec(to_delete, mutated) \o ToPush(1),
             panic |-> FALSE]

\* Vec::sort_by(|a, b| a.start.cmp(&b.start)) : a stable sort
RECURSIVE InsertByStart(_, _)
InsertByStart(sorted, tag) ==
    IF sorted = <<>> THEN <<tag>>
    ELSE IF Head(sorted).start <= tag.start
         THEN <<Head(sorted)>> \o InsertByStart(Tail(sorted), tag)
         ELSE <<tag>> \o sorted

RECURSIVE SortByStart(_, _)
SortByStart(sorted, rest) ==
    IF rest = <<>> THEN sorted
    ELSE Bind(InsertByStart(sorted, Head(rest)),
              LAMBDA next : SortByStart(next, Tail(rest)))

\* variant of sort_by_start: the sort left out
sort_by_start_Unsorted(color_info) == color_info

sort_by_start(color_info) == SortByStart(<<>>, color_info)

ColorTrackerNew == <<ColorTag(0, UsizeMax, "Default")>>

\* variant of push_range: the existing tags are not adjusted
push_range_NoAdjust(color_info, cursor_color, range) ==
    [color_info |->
         sort_by_start(Append(color_info,
                              ColorTag(range.start, range.end, cursor_color))),
     panic |-> FALSE]

\* ColorTracker::push_range : [color_info, panic]
push_range(color_info, cursor_color, range) ==
    LET adjusted == adjust_existing_color_ranges(color_info, range) IN
    IF adjusted.panic THEN adjusted
    ELSE [color_info |->
              sort_by_start(Append(adjusted.color_info,
                                   ColorTag(range.start, range.end, cursor_color))),
          panic |-> FALSE]

\* ColorTracker::colors
colors(color_info) ==
    [i \in 1..Len(color_info) |->
        [start |-> color_info[i].start,
         end |-> IF i + 1 <= Len(color_info) THEN color_info[i + 1].start
                 ELSE UsizeMax,
         color |-> color_info[i].color]]

\* variant of from_sgr: every rendition other than Reset names a colour
from_sgr_AnyName(sgr) ==
    IF sgr.name = "Reset" THEN <<"Default">> ELSE <<sgr.name>>

\* TerminalColor::from_sgr : Option<TerminalColor>
from_sgr(sgr) ==
    IF sgr.name = "Reset" THEN <<"Default">>
    ELSE IF sgr.name \in {"Black", "Red", "Green", "Yellow", "Blue", "Magenta",
                          "Cyan", "White"}
         THEN <<sgr.name>>
    ELSE <<>>

----------------------------------------------------------------------------
(* mod.rs : buffer and cursor.  The emulator state is                      *)
(* st = [buf, cursor_pos, color_tracker, panic]; once st.panic # "none"    *)
(* the process is dead and nothing changes any more.                       *)

Modulus == UsizeMax + 1

\* fold(0, |acc, item| acc + item.len() + 1) over the first y lines
RECURSIVE LineStart(_, _)
LineStart(lines, y) ==
    IF y = 0 \/ lines = <<>> THEN 0
    ELSE Len(Head(lines)) + 1 + LineStart(Tail(lines), y - 1)

\* slice::split(|b| *b == b'\n')
RECURSIVE split_newline(_, _, _)
split_newline(bytes, cur, acc) ==
    IF bytes = <<>> THEN Append(acc, cur)
    ELSE IF Head(bytes) = NEWLINE
         THEN split_newline(Tail(bytes), <<>>, Append(acc, cur))
         ELSE split_newline(Tail(bytes), Append(cur, Head(bytes)), acc)

\* variant of cursor_to_buffer_position: the row is ignored
cursor_to_buffer_position_ColumnOnly(cursor, b) == cursor.x

\* the mathematical value of line_start + cursor_pos.x (may exceed UsizeMax)
cursor_to_buffer_position(cursor, b) ==
    LineStart(split_newline(b, <<>>, <<>>), cursor.y) + cursor.x

\* [pos, panic] : cursor_to_buffer_position under the build's overflow rule
BufferPosition(cursor, b, checks) ==
    LET raw == cursor_to_buffer_position(cursor, b) IN
    IF raw <= UsizeMax THEN [pos |-> raw, panic |-> "none"]
    ELSE IF checks THEN [pos |-> 0, panic |-> "add_overflow"]
    ELSE [pos |-> raw % Modulus, panic |-> "none"]

\* variant of insert_data_at_position: the data spliced in, shifting the rest
insert_data_at_position_Splice(data, pos, b) ==
    IF ~(pos <= Len(b)) THEN [buf |-> b, panic |-> "insert_assert"]
    ELSE [buf |-> SubSeq(b, 1, pos) \o data \o SubSeq(b, pos + 1, Len(b)),
          panic |-> "none"]

\* [buf, panic]
insert_data_at_position(data, pos, b) ==
    IF ~(pos <= Len(b)) THEN [buf |-> b, panic |-> "insert_assert"]
    ELSE IF pos >= Len(b) THEN [buf |-> b \o data, panic |-> "none"]
    ELSE LET amount_that_fits == Len(b) - pos
             data_to_copy == IF amount_that_fits > Len(data) THEN data
                             ELSE SubSeq(data, 1, amount_that_fits)
             data_to_push == IF amount_that_fits > Len(data) THEN <<>>
                             ELSE SubSeq(data, amount_that_fits + 1, Len(data))
         IN [buf |-> [i \in 1..Len(b) |->
                         IF pos < i /\ i <= pos + Len(data_to_copy)
                         THEN data_to_copy[i - pos] ELSE b[i]] \o data_to_push,
             panic |-> "none"]

\* variant of update_cursor: a newline does not reset the column
RECURSIVE update_cursor_NoColumnReset(_, _, _)
update_cursor_NoColumnReset(incoming, cursor, checks) ==
    IF incoming = <<>> THEN [cursor |-> cursor, panic |-> "none"]
    ELSE IF Head(incoming) = NEWLINE
         THEN update_cursor_NoColumnReset(Tail(incoming),
                                          [cursor EXCEPT !.y = (@ + 1) % Modulus],
                                          checks)
         ELSE update_cursor_NoColumnReset(Tail(incoming),
                                          [cursor EXCEPT !.x = (@ + 1) % Modulus],
                                          checks)

\* [cursor, panic]
RECURSIVE update_cursor(_, _, _)
update_cursor(incoming, cursor, checks) ==
    IF incoming = <<>> THEN [cursor |-> cursor, panic |-> "none"]
    ELSE IF Head(incoming) = NEWLINE
         THEN IF cursor.y = UsizeMax /\ checks
              THEN [cursor |-> cursor, panic |-> "add_overflow"]
              ELSE update_cursor(Tail(incoming),
                                 [cursor EXCEPT !.x = 0, !.y = (@ + 1) % Modulus],
                                 checks)
         ELSE IF cursor.x = UsizeMax /\ checks
              THEN [cursor |-> cursor, panic |-> "add_overflow"]
              ELSE update_cursor(Tail(incoming),
                                 [cursor EXCEPT !.x = (@ + 1) % Modulus], checks)

\* `x - 1` on a usize : [val, panic]
SubOne(v, checks) ==
    IF v >= 1 THEN [val |-> v - 1, panic |-> "none"]
    ELSE IF checks THEN [val |-> 0, panic |-> "sub_overflow"]
    ELSE [val |-> UsizeMax, panic |-> "none"]

Dead(st, why) == [st EXCEPT !.panic = why]

\* variant of ApplyData: the data is written and the cursor moved, no colour
\* range is pushed
ApplyData_NoTag(st, data, checks) ==
    LET start == BufferPosition(st.cursor_pos, st.buf, checks) IN
    IF start.panic # "none" THEN Dead(st, start.panic)
    ELSE LET ins == insert_data_at_position(data, start.pos, st.buf) IN
    IF ins.panic # "none" THEN Dead(st, ins.panic)
    ELSE LET st1 == [st EXCEPT !.buf = ins.buf]
             moved == update_cursor(data, st1.cursor_pos, checks)
         IN
    IF moved.panic # "none"
    THEN [st1 EXCEPT !.cursor_pos = moved.cursor, !.panic = moved.panic]
    ELSE [st1 EXCEPT !.cursor_pos = moved.cursor]

\* TerminalOutput::Data arm of read()
ApplyData(st, data, checks) ==
    LET start == BufferPosition(st.cursor_pos, st.buf, checks) IN
    IF start.panic # "none" THEN Dead(st, start.panic)
    ELSE LET ins == insert_data_at_position(data, start.pos, st.buf) IN
    IF ins.panic # "none" THEN Dead(st, ins.panic)
    ELSE LET st1 == [st EXCEPT !.buf = ins.buf]
             stop == start.pos + Len(data)
         IN
    IF stop > UsizeMax /\ checks THEN Dead(st1, "add_overflow")
    ELSE LET pushed == push_range(st1.color_tracker, st1.cursor_pos.color,
                                  Range(start.pos, stop % Modulus))
         IN
    IF pushed.panic THEN Dead(st1, "unhandled_overlap")
    ELSE LET st2 == [st1 EXCEPT !.color_tracker = pushed.color_info]
             moved == update_cursor(data, st2.cursor_pos, checks)
         IN
    IF moved.panic # "none"
    THEN [st2 EXCEPT !.cursor_pos = moved.cursor, !.panic = moved.panic]
    ELSE [st2 EXCEPT !.cursor_pos = moved.cursor]

\* TerminalOutput::SetCursorPos arm
ApplySetCursorPos(st, x, y, checks) ==
    LET nx == IF x # <<>> THEN SubOne(x[1], checks)
              ELSE [val |-> st.cursor_pos.x, panic |-> "none"]
        st1 == [st EXCEPT !.cursor_pos.x = nx.val]
        ny == IF y # <<>> THEN SubOne(y[1], checks)
              ELSE [val |-> st.cursor_pos.y, panic |-> "none"]
    IN IF nx.panic # "none" THEN Dead(st, nx.panic)
       ELSE IF ny.panic # "none" THEN Dead(st1, ny.panic)
       ELSE [st1 EXCEPT !.cursor_pos.y = ny.val]

\* TerminalOutput::ClearForwards arm
ApplyClearForwards(st, checks) ==
    LET buf_pos == BufferPosition(st.cursor_pos, st.buf, checks) IN
    IF buf_pos.panic # "none" THEN Dead(st, buf_pos.panic)
    ELSE LET pushed == push_range(st.color_tracker, st.cursor_pos.color,
                                  Range(buf_pos.pos, UsizeMax))
         IN
    IF pushed.panic THEN Dead(st, "unhandled_overlap")
    ELSE LET st1 == [st EXCEPT !.color_tracker = pushed.color_info] IN
    IF buf_pos.pos > Len(st1.buf) THEN Dead(st1, "slice_out_of_range")
    ELSE [st1 EXCEPT !.buf = SubSeq(st1.buf, 1, buf_pos.pos)]

\* TerminalOutput::ClearBackwards arm
ApplyClearBackwards(st, checks) ==
    LET buf_pos == BufferPosition(st.cursor_pos, st.buf, checks) IN
    IF buf_pos.panic # "none" THEN Dead(st, buf_pos.panic)
    ELSE IF buf_pos.pos > Len(st.buf) THEN Dead(st, "slice_out_of_range")
    ELSE [st EXCEPT !.buf = SubSeq(st.buf, buf_pos.pos + 1, Len(st.buf))]

\* variant of ApplyClearAll: the buffer is cleared, the colour tags are kept
ApplyClearAll_KeepTags(st) == [st EXCEPT !.buf = <<>>]

\* TerminalOutput::ClearAll arm
ApplyClearAll(st) ==
    LET pushed == push_range(st.color_tracker, st.cursor_pos.color,
                             Range(0, UsizeMax))
    IN IF pushed.panic THEN Dead(st, "unhandled_overlap")
       ELSE [st EXCEPT !.color_tracker = pushed.color_info, !.buf = <<>>]

\* TerminalOutput::Sgr arm
ApplySgr(st, sgr) ==
    LET color == from_sgr(sgr) IN
    IF color # <<>> THEN [st EXCEPT !.cursor_pos.color = color[1]] ELSE st

\* variant of ApplyOp: the Invalid arm clears the screen
ApplyOp_InvalidClears(st, segment, checks) ==
    IF st.panic # "none" THEN st
    ELSE CASE segment.type = "Data" -> ApplyData(st, segment.data, checks)
           [] segment.type = "SetCursorPos" ->
                ApplySetCursorPos(st, segment.x, segment.y, checks)
           [] segment.type = "ClearForwards" -> ApplyClearForwards(st, checks)
           [] segment.type = "ClearBackwards" -> ApplyClearBackwards(st, checks)
           [] segment.type = "ClearAll" -> ApplyClearAll(st)
           [] segment.type = "Sgr" -> ApplySgr(st, segment.sgr)
           [] OTHER -> ApplyClearAll(st)

\* the body of `match segment` in read()
ApplyOp(st, segment, checks) ==
    IF st.panic # "none" THEN st
    ELSE CASE segment.type = "Data" -> ApplyData(st, segment.data, checks)
           [] segment.type = "SetCursorPos" ->
                ApplySetCursorPos(st, segment.x, segment.y, checks)
           [] segment.type = "ClearForwards" -> ApplyClearForwards(st, checks)
           [] segment.type = "ClearBackwards" -> ApplyClearBackwards(st, checks)
           [] segment.type = "ClearAll" -> ApplyClearAll(st)
           [] segment.type = "Sgr" -> ApplySgr(st, segment.sgr)
           [] OTHER -> st

\* `for segment in parsed`
RECURSIVE ApplyOps(_, _, _)
ApplyOps(st, parsed, checks) ==
    IF parsed = <<>> THEN st
    ELSE Bind(ApplyOp(st, Head(parsed), checks),
              LAMBDA next : ApplyOps(next, Tail(parsed), checks))

----------------------------------------------------------------------------
(* Bounds of the model *)

MaxOffset == 3      \* colour ranges have their ends in 0..MaxOffset or at usize::MAX

----------------------------------------------------------------------------
(* Initial state: TerminalEmulator::new, AnsiParser::new, ColorTracker::new *)

CursorStateNew == [x |-> 0, y |-> 0, color |-> "Default"]

\* no call of read() in progress
NotReading == [at |-> "returned", val |-> "Ok", incoming |-> <<>>]

Offsets == 0..MaxOffset

InitCommon ==
    /\ output_buf = AnsiParserNew
    /\ buf = <<>>
    /\ color_tracker = ColorTrackerNew
    /\ cursor_pos = CursorStateNew
    /\ panic = "none"
    /\ fed = <<>>
    /\ emitted = <<>>
    /\ last = <<>>
    /\ painted = [o \in Offsets |-> "Default"]
    /\ applied = {}
    /\ nreads = 0
    /\ before = [buf |-> <<>>, cursor_pos |-> CursorStateNew,
                 color_tracker |-> ColorTrackerNew, panic |-> "none"]
    /\ read_ret = NotReading

----------------------------------------------------------------------------
(* SpecTracker : a ColorTracker driven by push_range calls.  `painted` is   *)
(* the reference colouring: an array of colours, one per offset, in which  *)
(* each call simply overwrites the offsets of its range (offset MaxOffset  *)
(* stands for every offset from MaxOffset up to usize::MAX - 1).  The       *)
(* callers in read() only pass non-empty ranges; one call with an empty    *)
(* range is explored as well, and recorded in `applied`.                   *)

PushColors == {"Default", "Yellow", "Blue"}
RangeEnds == Offsets \cup {UsizeMax}

Paint(p, range, color) ==
    [o \in DOMAIN p |-> IF range.start <= o /\ o < range.end THEN color ELSE p[o]]

PushRange(color, s, e) ==
    /\ panic = "none"
    /\ s = e => "empty" \notin applied
    /\ \E pushed \in {push_range(color_tracker, color, Range(s, e))} :
       /\ color_tracker' = pushed.color_info
       /\ panic' = IF pushed.panic THEN "unhandled_overlap" ELSE "none"
    /\ painted' = Paint(painted, Range(s, e), color)
    /\ applied' = applied \cup {IF s < e THEN "nonempty" ELSE "empty"}
    /\ UNCHANGED <<output_buf, buf, cursor_pos, overflow_checks, fed, emitted,
                   last, nreads,
                   before, read_ret>>

InitTracker == InitCommon /\ overflow_checks = TRUE

NextTracker ==
    \E color \in PushColors, s \in RangeEnds, e \in RangeEnds :
        s <= e /\ PushRange(color, s, e)

SpecTracker == InitTracker /\ [][NextTracker]_vars

\* the colours colors() reports for offset o
ColorsAt(cs, o) ==
    {cs[i].color : i \in {j \in 1..Len(cs) : cs[j].start <= o /\ o < cs[j].end}}

\* C2: after any sequence of push_range calls with non-empty ranges, colors()
\* reports for every offset the colour of the last range pushed over it (the
\* pushed colour inside the declared range, the colour reported before the call
\* everywhere else), i.e. it agrees with the reference colouring.
C2_PushRangeRecolorsExactly ==
    "empty" \notin applied =>
        \A o \in Offsets : ColorsAt(colors(color_tracker), o) = {painted[o]}

\* C2 witness: the shape of basic_color_tracker_test: a tag was split around a
\* pushed range, then a later range trimmed one tag and replaced others.
C2_Witness ==
    /\ "empty" \notin applied
    /\ panic = "none"
    /\ Len(color_tracker) = 4
    /\ \E i \in 1..3 : color_tracker[i].color = "Yellow"
                       /\ color_tracker[i + 1].color = "Blue"
    /\ painted[0] = "Default" /\ painted[MaxOffset] = "Default"

\* C3: colors() is ordered by start, begins at 0, each range ends where the
\* next starts, the last ends at usize::MAX, and every offset has exactly one
\* colour; a fresh tracker reports the single range (0..MAX, Default).
C3_ColorsCoverEverything ==
    /\ colors(ColorTrackerNew) = <<ColorTag(0, UsizeMax, "Default")>>
    /\ panic = "none" =>
        LET cs == colors(color_tracker) IN
        /\ Len(cs) >= 1
        /\ cs[1].start = 0
        /\ cs[Len(cs)].end = UsizeMax
        /\ \A i \in 1..(Len(cs) - 1) :
              cs[i].start <= cs[i + 1].start /\ cs[i].end = cs[i + 1].start
        /\ \A o \in Offsets \cup {UsizeMax - 1} :
              Cardinality({i \in 1..Len(cs) : cs[i].start <= o /\ o < cs[i].end}) = 1

\* C3 witness: several ranges have been pushed and colors() has inner ranges
C3_Witness ==
    /\ panic = "none"
    /\ Len(colors(color_tracker)) >= 4
    /\ \E i \in 1..Len(color_tracker) : colors(color_tracker)[i].color = "Blue"

----------------------------------------------------------------------------
(* SpecParser : one AnsiParser fed an arbitrary byte stream in arbitrary    *)
(* chunks.  `fed` is the stream so far, `emitted` the concatenation of the *)
(* vectors returned by the push calls.                                     *)

MaxStream == 5      \* total number of bytes pushed

\* ESC, '[', 'H' (a terminator and, outside a sequence, a literal), '2' (a
\* parameter byte), '-' (an intermediate byte), '\n' (no CSI byte class)
ParserBytes == {ESC, LBRACKET, CH_H, 50, 45, NEWLINE}

BytesOfLen(alphabet, n) == [1..n -> alphabet]

PushChunk(chunk) ==
    /\ panic = "none"
    /\ \E r \in {AnsiParserPush(output_buf, chunk)} :
       /\ output_buf' = r.inner
       /\ emitted' = emitted \o r.output
       /\ panic' = IF r.panic THEN "csi_finished_push" ELSE "none"
    /\ fed' = fed \o chunk
    /\ UNCHANGED <<buf, color_tracker, cursor_pos, overflow_checks, last,
                   painted, applied, nreads,
                   before, read_ret>>

InitParser == InitCommon /\ overflow_checks = TRUE

NextParser ==
    \E n \in 0..(MaxStream - Len(fed)) :
        \E chunk \in BytesOfLen(ParserBytes, n) : PushChunk(chunk)

SpecParser == InitParser /\ [][NextParser]_vars

\* what a single push of the whole stream on a fresh parser returns
WholePush(stream) == AnsiParserPush(AnsiParserNew, stream).output

\* merge every run of adjacent Data operations into one
RECURSIVE MergeData(_)
MergeData(ops) ==
    IF Len(ops) < 2 THEN ops
    ELSE IF ops[1].type = "Data" /\ ops[2].type = "Data"
         THEN MergeData(<<Data(ops[1].data \o ops[2].data)>> \o SubSeq(ops, 3, Len(ops)))
         ELSE <<ops[1]>> \o MergeData(Tail(ops))

CsiBody(stream) == SubSeq(stream, 3, Len(stream))

\* the first index of `body` that fits no CSI position: every byte before it
\* is a parameter byte followed only by intermediate bytes, and it is neither
\* a terminator nor a legal continuation; 0 when there is none
Conforms(body, k) ==
    \E j \in 0..k : /\ \A i \in 1..j : is_csi_param(body[i])
                    /\ \A i \in (j + 1)..k : is_csi_intermediate(body[i])

FirstViolation(body) ==
    LET bad == {i \in 1..Len(body) :
                   /\ Conforms(body, i - 1)
                   /\ ~Conforms(body, i)
                   /\ ~is_csi_terminator(body[i])}
    IN IF bad = {} THEN 0 ELSE CHOOSE i \in bad : \A j \in bad : i <= j

\* C6 (as claimed): when the stream is ESC [ followed by a body that has a
\* byte-class violation and ends at the first terminator after it, the only
\* operation produced is one Invalid: the bytes after the violating byte, up
\* to and including that terminator, appear in no Data operation.
C6_InvalidDiscardsToTerminator ==
    LET body == CsiBody(fed)
        v == FirstViolation(body)
    IN (/\ Len(fed) >= 4
        /\ fed[1] = ESC /\ fed[2] = LBRACKET
        /\ v > 0 /\ v < Len(body)
        /\ is_csi_terminator(body[Len(body)])
        /\ \A i \in (v + 1)..(Len(body) - 1) : ~is_csi_terminator(body[i]))
       => emitted = <<Invalid>>

----------------------------------------------------------------------------
(* SpecDecode : the decoding of one CSI sequence.  Init draws the input    *)
(* `last` = [pre, body, term, post]: literal bytes, ESC [ body term, and   *)
(* literal bytes; the actions push it on a fresh parser, in one call or    *)
(* cut in two chunks.                                                      *)

MaxBody == 3        \* number of bytes between ESC [ and the terminator

\* '0' '1' '2' '3' '9', ':' (a parameter byte that is no digit), ';', and '-'
\* (an intermediate byte)
BodyBytes == {48, 49, 50, 51, 57, 58, SEMICOLON, 45}
\* 'z' is a terminator no arm of push() recognizes
Terminators == {CH_H, CH_G, CH_J, CH_m, 122}
\* literal text around the sequence: nothing, or "a"
Literals == {<<>>, <<97>>}

Bodies == UNION {BytesOfLen(BodyBytes, n) : n \in 0..MaxBody}

SequenceOf(in) == <<ESC, LBRACKET>> \o in.body \o <<in.term>>
StreamOf(in) == in.pre \o SequenceOf(in) \o in.post

InitDecode ==
    /\ output_buf = AnsiParserNew
    /\ buf = <<>>
    /\ color_tracker = ColorTrackerNew
    /\ cursor_pos = CursorStateNew
    /\ panic = "none"
    /\ overflow_checks = TRUE
    /\ fed = <<>>
    /\ emitted = <<>>
    /\ painted = [o \in Offsets |-> "Default"]
    /\ applied = {}
    /\ nreads = 0
    /\ before = [buf |-> <<>>, cursor_pos |-> CursorStateNew,
                 color_tracker |-> ColorTrackerNew, panic |-> "none"]
    /\ read_ret = NotReading
    /\ last \in [pre : Literals, body : Bodies, term : Terminators, post : Literals]

\* one push() of the whole stream
DecodeWhole ==
    /\ applied = {}
    /\ \E r \in {AnsiParserPush(output_buf, StreamOf(last))} :
       /\ output_buf' = r.inner
       /\ emitted' = r.output
       /\ panic' = IF r.panic THEN "csi_finished_push" ELSE "none"
    /\ fed' = StreamOf(last)
    /\ applied' = {"whole"}
    /\ UNCHANGED <<buf, color_tracker, cursor_pos, overflow_checks, last,
                   painted, nreads,
                   before, read_ret>>

\* two push() calls, the stream cut after its k-th byte
DecodeSplit(k) ==
    /\ applied = {}
    /\ \E stream \in {StreamOf(last)} :
       \E r1 \in {AnsiParserPush(output_buf, SubSeq(stream, 1, k))} :
       \E r2 \in {AnsiParserPush(r1.inner, SubSeq(stream, k + 1, Len(stream)))} :
          /\ ~r1.panic
          /\ output_buf' = r2.inner
          /\ emitted' = r1.output \o r2.output
          /\ panic' = IF r2.panic THEN "csi_finished_push" ELSE "none"
    /\ fed' = StreamOf(last)
    /\ applied' = {"split"}
    /\ UNCHANGED <<buf, color_tracker, cursor_pos, overflow_checks, last,
                   painted, nreads,
                   before, read_ret>>

NextDecode ==
    \/ DecodeWhole
    \/ \E k \in 1..(Len(StreamOf(last)) - 1) : DecodeSplit(k)

SpecDecode == InitDecode /\ [][NextDecode]_vars


\* the operations other than Data, in order
RECURSIVE NonData(_)
NonData(ops) ==
    IF ops = <<>> THEN <<>>
    ELSE IF Head(ops).type = "Data" THEN NonData(Tail(ops))
    ELSE <<Head(ops)>> \o NonData(Tail(ops))

\* the concatenation of the Data payloads, in order
RECURSIVE DataBytes(_)
DataBytes(ops) ==
    IF ops = <<>> THEN <<>>
    ELSE IF Head(ops).type = "Data" THEN Head(ops).data \o DataBytes(Tail(ops))
    ELSE DataBytes(Tail(ops))

\* the parameter string as the claims read it: fields separated by ';', a
\* field being empty or a decimal numeral; a numeral denotes a parameter value
\* when it fits usize (str::parse fails on a larger one)
OnlyParamBytes(body) == \A i \in 1..Len(body) : is_csi_param(body[i])
Semicolons(body) == {i \in 1..Len(body) : body[i] = SEMICOLON}
NumFields(body) == Cardinality(Semicolons(body)) + 1
\* position of the k-th semicolon; 0 for k = 0, Len + 1 past the last one
NthSemicolon(body, k) ==
    IF k = 0 THEN 0
    ELSE IF k > Cardinality(Semicolons(body)) THEN Len(body) + 1
    ELSE CHOOSE i \in Semicolons(body) :
            Cardinality({j \in Semicolons(body) : j <= i}) = k
Field(body, k) ==
    SubSeq(body, NthSemicolon(body, k - 1) + 1, NthSemicolon(body, k) - 1)
IsDigits(f) == f # <<>> /\ \A i \in 1..Len(f) : 48 <= f[i] /\ f[i] <= 57
RECURSIVE DecimalValue(_)
DecimalValue(f) ==
    IF f = <<>> THEN 0
    ELSE 10 * DecimalValue(SubSeq(f, 1, Len(f) - 1)) + (f[Len(f)] - 48)
IsNumber(f) == IsDigits(f) /\ DecimalValue(f) <= UsizeMax
FieldParses(f) == f = <<>> \/ IsNumber(f)
ValueOr(f, default) == IF f = <<>> THEN default ELSE DecimalValue(f)

Pushed == applied # {}

\* C7: ESC [ p1 ; p2 H yields exactly one operation: SetCursorPos with x the
\* first and y the second parameter, each 1 when absent or empty; when a
\* parameter is not a decimal number (one that fits usize) it yields exactly
\* one Invalid.
C7_CursorPositionDecoding ==
    LET body == last.body IN
    (Pushed /\ last.term = CH_H /\ OnlyParamBytes(body) /\ NumFields(body) <= 2) =>
        NonData(emitted) =
            IF \A k \in 1..NumFields(body) : FieldParses(Field(body, k))
            THEN <<SetCursorPos(
                     <<ValueOr(Field(body, 1), 1)>>,
                     <<IF NumFields(body) = 2 THEN ValueOr(Field(body, 2), 1) ELSE 1>>)>>
            ELSE <<Invalid>>

\* C7 witness: ESC [ ; 3 H was decoded (x defaulted, y given)
C7_Witness ==
    /\ Pushed /\ last.term = CH_H /\ last.body = <<SEMICOLON, 51>>
    /\ emitted = <<SetCursorPos(<<1>>, <<3>>)>>

\* C8: ESC [ p J yields exactly one operation: ClearForwards when p is absent
\* or 0, ClearBackwards when p is 1, ClearAll when p is 2 or 3, and Invalid for
\* every other numeric value and every non-numeric parameter string.
C8_EraseDecoding ==
    LET body == last.body
        v == DecimalValue(body)
    IN (Pushed /\ last.term = CH_J /\ OnlyParamBytes(body)) =>
        NonData(emitted) =
            IF body = <<>> \/ (IsNumber(body) /\ v = 0) THEN <<ClearForwards>>
            ELSE IF IsNumber(body) /\ v = 1 THEN <<ClearBackwards>>
            ELSE IF IsNumber(body) /\ v \in {2, 3} THEN <<ClearAll>>
            ELSE <<Invalid>>

\* C8 witness: ESC [ 3 J was decoded as ClearAll
C8_Witness ==
    /\ Pushed /\ last.term = CH_J /\ last.body = <<51>>
    /\ NonData(emitted) = <<ClearAll>>

\* the rendition the claim gives for a code
SgrColorNames ==
    <<"Black", "Red", "Green", "Yellow", "Blue", "Magenta", "Cyan", "White">>
SgrBrightNames ==
    <<"BrightBlack", "BrightRed", "BrightGreen", "BrightYellow", "BrightBlue",
      "BrightMagenta", "BrightCyan", "BrightWhite">>
RenditionOfCode(c) ==
    IF c = 0 THEN Rendition("Reset")
    ELSE IF c \in 30..37 THEN Rendition(SgrColorNames[c - 29])
    ELSE IF c \in 90..97 THEN Rendition(SgrBrightNames[c - 89])
    ELSE Unknown(c)

\* C9 (as claimed): ESC [ p1 ; ... ; pn m yields one Sgr per parameter of the
\* list, in order, none dropped (an empty parameter standing for 0), with the
\* code-to-rendition table of the claim; when a parameter fails to parse it
\* yields exactly one Invalid.
C9_SgrOnePerParameter ==
    LET body == last.body
        n == NumFields(body)
    IN (Pushed /\ last.term = CH_m /\ OnlyParamBytes(body)) =>
        NonData(emitted) =
            IF \A k \in 1..n : FieldParses(Field(body, k))
            THEN [k \in 1..n |-> Sgr(RenditionOfCode(ValueOr(Field(body, k), 0)))]
            ELSE <<Invalid>>

\* the Data operation a run of literal bytes comes out as (none when empty)
DataIf(bytes) == IF bytes = <<>> THEN <<>> ELSE <<Data(bytes)>>

\* C10: in one push, the literal bytes before a control sequence come out as
\* one Data placed before the sequence's operations and those after it as one
\* separate Data placed right after them; whatever the chunking, the Data
\* payloads taken together are the literal bytes in input order, none
\* duplicated or dropped.
C10_DataAroundSequenceInOrder ==
    (Pushed /\ Conforms(last.body, Len(last.body))) =>
        /\ DataBytes(emitted) = last.pre \o last.post
        /\ "whole" \in applied =>
              emitted = DataIf(last.pre) \o NonData(emitted) \o DataIf(last.post)

\* C10 witness: "a" ESC [ 1 ; 3 H "a" pushed in one call
C10_Witness ==
    /\ applied = {"whole"}
    /\ last.body = <<49, SEMICOLON, 51>> /\ last.term = CH_H
    /\ emitted = <<Data(<<97>>), SetCursorPos(<<1>>, <<3>>), Data(<<97>>)>>

----------------------------------------------------------------------------
(* Spec : the TerminalEmulator.  Each step is one iteration of the loop of *)
(* read(): the descriptor delivers a chunk, the chunk is pushed into the   *)
(* parser and the operations it returns are applied in order.  (A read()   *)
(* that drains n chunks before the descriptor would block is n such steps; *)
(* would-block and read errors leave the state as it is.)  `last` holds    *)
(* the operations parsed from the latest chunk, `applied` the kinds of     *)
(* operation applied since construction, `nreads` the number of chunks.    *)

MaxChunks == 4      \* total number of chunks the descriptor delivers

Csi(params, term) == <<ESC, LBRACKET>> \o params \o <<term>>

Chunks ==
    { <<97>>,                       \* "a"
      <<98, 99>>,                   \* "bc"
      <<NEWLINE>>,                  \* "\n"
      Csi(<<>>, CH_H),              \* ESC [ H      cursor to column 1, row 1
      Csi(<<SEMICOLON, 50>>, CH_H), \* ESC [ ; 2 H  cursor to column 1, row 2
      Csi(<<50>>, CH_G),            \* ESC [ 2 G    cursor to column 2
      Csi(<<48>>, CH_G),            \* ESC [ 0 G    cursor to column 0
      Csi(<<>>, CH_J),              \* ESC [ J      ClearForwards
      Csi(<<49>>, CH_J),            \* ESC [ 1 J    ClearBackwards
      Csi(<<50>>, CH_J),            \* ESC [ 2 J    ClearAll
      Csi(<<51, 49>>, CH_m),        \* ESC [ 3 1 m  Sgr(Red)
      Csi(<<>>, CH_m),              \* ESC [ m      Sgr(Reset)
      Csi(<<50>>, 122),             \* ESC [ 2 z    unrecognized terminator
      Csi(<<53>>, CH_m),            \* ESC [ 5 m    Sgr(Unknown(5))
      Csi(<<45, 50>>, CH_G),        \* ESC [ - 2 G  parameter after intermediate
      <<ESC, 120>>,                 \* ESC x        unrecognized escape
      <<ESC, LBRACKET>>,            \* ESC [        a sequence cut by the chunk end
      <<CH_G>> }                    \* "G"          its end, or a literal

EmulatorState ==
    [buf |-> buf, cursor_pos |-> cursor_pos, color_tracker |-> color_tracker,
     panic |-> panic]

\* the kinds of the operations applied, up to and including one that panics
RECURSIVE KindsApplied(_, _, _)
KindsApplied(st, parsed, checks) ==
    IF parsed = <<>> \/ st.panic # "none" THEN {}
    ELSE {Head(parsed).type}
         \cup Bind(ApplyOp(st, Head(parsed), checks),
                   LAMBDA next : KindsApplied(next, Tail(parsed), checks))

\* the body of the `while ret.is_ok()` loop of read() for the bytes of one
\* successful read: push them into the parser, apply the operations in order
LoopBody(incoming) ==
    /\ panic = "none"
    /\ \E parsed \in {AnsiParserPush(output_buf, incoming)} :
       \E st \in {IF parsed.panic THEN Dead(EmulatorState, "csi_finished_push")
                  ELSE ApplyOps(EmulatorState, parsed.output, overflow_checks)} :
          /\ output_buf' = parsed.inner
          /\ buf' = st.buf
          /\ cursor_pos' = st.cursor_pos
          /\ color_tracker' = st.color_tracker
          /\ panic' = st.panic
          /\ last' = parsed.output
          /\ applied' = applied \cup
                KindsApplied(EmulatorState, parsed.output, overflow_checks)
    /\ before' = EmulatorState
    /\ UNCHANGED <<overflow_checks, fed, emitted, painted>>

\* one iteration of the loop of read() on a chunk that was read
Read(incoming) ==
    /\ nreads < MaxChunks
    /\ LoopBody(incoming)
    /\ nreads' = nreads + 1
    /\ UNCHANGED read_ret

Init == InitCommon /\ overflow_checks \in BOOLEAN

Next == \E incoming \in Chunks : Read(incoming)

Spec == Init /\ [][Next]_vars

\* C4 (as claimed): the precondition assertion of insert_data_at_position
\* never fails, whatever bytes were fed.
C4_InsertPreconditionNeverFails == panic # "insert_assert"

ControlKinds == {"SetCursorPos", "ClearForwards", "ClearBackwards", "ClearAll"}

----------------------------------------------------------------------------
(* SpecParser : the escape and CSI states between input bytes *)

\* what a fresh parser has returned, and the state it is in, after `stream`
ParserAfter(stream) == AnsiParserPush(AnsiParserNew, stream)

\* C11: when the parser is in Idle and receives ESC followed by a byte other
\* than '[', it emits no operation for the two bytes (no Invalid, no Data
\* holding either of them) and is back in Idle; a following non-ESC byte is
\* literal data.
C11_UnrecognizedEscapeDiscarded ==
    LET n == Len(fed)
        before2 == ParserAfter(SubSeq(fed, 1, n - 2))
        before3 == ParserAfter(SubSeq(fed, 1, n - 3))
    IN /\ (/\ n >= 2 /\ fed[n - 1] = ESC /\ fed[n] # LBRACKET
           /\ before2.inner.tag = "Empty") =>
              /\ output_buf = InnerEmpty
              /\ NonData(emitted) = NonData(before2.output)
              /\ DataBytes(emitted) = DataBytes(before2.output)
       /\ (/\ n >= 3 /\ fed[n - 2] = ESC /\ fed[n - 1] # LBRACKET /\ fed[n] # ESC
           /\ before3.inner.tag = "Empty") =>
              /\ output_buf = InnerEmpty
              /\ NonData(emitted) = NonData(before3.output)
              /\ DataBytes(emitted) = DataBytes(before3.output) \o <<fed[n]>>

\* C11 witness: "2", then ESC - (an unrecognized escape), then "H" as literal
C11_Witness ==
    /\ fed = <<50, ESC, 45, CH_H>>
    /\ DataBytes(emitted) = <<50, CH_H>>
    /\ NonData(emitted) = <<>>
    /\ output_buf = InnerEmpty

----------------------------------------------------------------------------
(* SpecInsert : insert_data_at_position called repeatedly on one buffer,   *)
(* as test_cursor_data_insert does.  `last` holds the arguments of the     *)
(* latest call and the buffer it was given; a position past the end of the *)
(* buffer is tried as well and aborts.                                     *)

MaxInserts == 3     \* number of calls
MaxData == 2        \* length of the data of one call

InsertBytes == {97, 98}
InsertData == UNION {BytesOfLen(InsertBytes, n) : n \in 0..MaxData}

Insert(data, pos) ==
    /\ panic = "none"
    /\ nreads < MaxInserts
    /\ \E r \in {insert_data_at_position(data, pos, buf)} :
          /\ buf' = r.buf
          /\ panic' = r.panic
    /\ last' = [data |-> data, pos |-> pos, old |-> buf]
    /\ applied' = {"insert"}
    /\ nreads' = nreads + 1
    /\ UNCHANGED <<output_buf, color_tracker, cursor_pos, overflow_checks, fed,
                   emitted, painted, before, read_ret>>

InitInsert == InitCommon /\ overflow_checks = TRUE

NextInsert ==
    \E data \in InsertData : \E pos \in 0..(Len(buf) + 1) : Insert(data, pos)

SpecInsert == InitInsert /\ [][NextInsert]_vars

Max(a, b) == IF a >= b THEN a ELSE b

\* C12: insert_data_at_position(data, pos, buf) with pos <= len(buf) does not
\* abort and leaves a buffer of length max(len(buf), pos + len(data)) that
\* holds data at [pos, pos + len(data)) and the old byte at every other old
\* index (append at pos = len(buf), overwrite then append inside).
C12_InsertOverwritesThenAppends ==
    (applied = {"insert"} /\ last.pos <= Len(last.old)) =>
        /\ panic = "none"
        /\ Len(buf) = Max(Len(last.old), last.pos + Len(last.data))
        /\ \A i \in 1..Len(buf) :
              buf[i] = IF last.pos < i /\ i <= last.pos + Len(last.data)
                       THEN last.data[i - last.pos]
                       ELSE last.old[i]

\* C12 witness: two bytes written one before the end of a three-byte buffer:
\* the first overwrites the last byte, the second is appended
C12_Witness ==
    /\ applied = {"insert"} /\ panic = "none"
    /\ last.old = <<97, 97, 97>> /\ last.pos = 2 /\ last.data = <<98, 98>>
    /\ buf = <<97, 97, 98, 98>>

----------------------------------------------------------------------------
(* Spec : the effect of single operations.  `before` is the emulator state *)
(* the latest chunk was applied to and `last` the operations parsed from   *)
(* it, so a chunk that held one operation shows that operation's effect.   *)

\* the latest chunk was applied to a live emulator and held the one operation
\* of kind `kind`
Applied(kind) ==
    /\ nreads > 0
    /\ before.panic = "none"
    /\ Len(last) = 1
    /\ last[1].type = kind

\* the coordinate stored for a field of SetCursorPos: n - 1 when present
StoredCoordinate(field, old) == IF field # <<>> THEN field[1] - 1 ELSE old

\* C13 (as claimed): applying SetCursorPos stores n - 1, a non-negative
\* integer, for each present field n (0 included) and keeps each absent
\* coordinate; buffer, colour and tracker are unchanged.
C13_SetCursorPosStoresMinusOne ==
    Applied("SetCursorPos") =>
        /\ panic = "none"
        /\ cursor_pos.x = StoredCoordinate(last[1].x, before.cursor_pos.x)
        /\ cursor_pos.y = StoredCoordinate(last[1].y, before.cursor_pos.y)
        /\ cursor_pos.x >= 0 /\ cursor_pos.y >= 0
        /\ cursor_pos.color = before.cursor_pos.color
        /\ buf = before.buf
        /\ color_tracker = before.color_tracker

\* the operations other than Invalid, in order
RECURSIVE WithoutInvalid(_)
WithoutInvalid(ops) ==
    IF ops = <<>> THEN <<>>
    ELSE IF Head(ops) = Invalid THEN WithoutInvalid(Tail(ops))
    ELSE <<Head(ops)>> \o WithoutInvalid(Tail(ops))

\* C14: applying Invalid changes nothing: a chunk that holds only Invalid
\* leaves buffer, cursor, colour and tracker as they were, and a chunk that
\* holds Invalid among other operations leaves the state those others
\* alone would have left.
C14_InvalidChangesNothing ==
    (nreads > 0 /\ before.panic = "none"
     /\ \E i \in 1..Len(last) : last[i] = Invalid) =>
        /\ EmulatorState = ApplyOps(before, WithoutInvalid(last), overflow_checks)
        /\ Len(last) = 1 => EmulatorState = before

\* C14 witness: Invalid was applied alone to an emulator holding coloured text
\* with the cursor moved
C14_Witness ==
    /\ Applied("Invalid")
    /\ before.buf # <<>>
    /\ before.cursor_pos.color = "Red"
    /\ Len(before.color_tracker) >= 2
    /\ EmulatorState = before

----------------------------------------------------------------------------
(* SpecOverlap : ranges_overlap called on two ranges, as test_range_overlap *)
(* does.  `last` holds the two arguments and the value returned.            *)

MaxEnd == 4         \* the ranges have their ends in 0..MaxEnd

OverlapRanges == {Range(s, e) : s \in 0..MaxEnd, e \in 0..MaxEnd}

Overlap(a, b) ==
    /\ last' = [a |-> a, b |-> b, result |-> ranges_overlap(a, b)]
    /\ applied' = {"overlap"}
    /\ UNCHANGED <<output_buf, buf, color_tracker, cursor_pos, panic,
                   overflow_checks, fed, emitted, painted, nreads,
                   before, read_ret>>

InitOverlap == InitCommon /\ overflow_checks = TRUE

NextOverlap ==
    \E a \in OverlapRanges, b \in OverlapRanges :
        a.start <= a.end /\ b.start <= b.end /\ Overlap(a, b)

SpecOverlap == InitOverlap /\ [][NextOverlap]_vars

\* the offsets of a half-open range
OffsetsOf(r) == {o \in 0..UsizeMax : r.start <= o /\ o < r.end}

\* C15: on non-empty ranges, ranges_overlap(a, b) is true exactly when a and b
\* share an offset, i.e. when a.start < b.end and b.start < a.end (so ranges
\* that abut do not overlap), and it gives the same answer for (b, a).
C15_OverlapIffShareOffset ==
    (/\ applied = {"overlap"}
     /\ last.a.start < last.a.end /\ last.b.start < last.b.end) =>
        /\ last.result = (OffsetsOf(last.a) \cap OffsetsOf(last.b) # {})
        /\ last.result = (last.a.start < last.b.end /\ last.b.start < last.a.end)
        /\ last.result = ranges_overlap(last.b, last.a)

\* C15 witness: a range strictly inside the other overlaps it
C15_Witness ==
    /\ applied = {"overlap"}
    /\ last.a = Range(1, 4) /\ last.b = Range(2, 3)
    /\ last.result = TRUE

----------------------------------------------------------------------------
(* SpecTracker : the cases of adjust_existing_color_range *)

\* the four handled relations between a pushed range and an existing tag, as
\* the claim names them
NewContainsExisting(new, ex) == new.start <= ex.start /\ ex.end <= new.end
ExistingContainsNew(new, ex) == ex.start <= new.start /\ new.end <= ex.end
NewOverlapsTail(new, ex) ==
    ex.start < new.start /\ new.start < ex.end /\ ex.end < new.end
NewOverlapsHead(new, ex) ==
    new.start < ex.start /\ ex.start < new.end /\ new.end < ex.end

\* the ranges a caller can push onto the tracker
PushableRanges == {Range(s, e) : s \in RangeEnds, e \in RangeEnds}

\* the existing tags adjust_existing_color_ranges selects for a pushed range
Selected(existing, range) ==
    {i \in 1..Len(existing) :
        ranges_overlap(Range(existing[i].start, existing[i].end), range)}

\* C16: no push_range call has hit the 'Unhandled case' panic, and in every
\* reachable tracker state, for every range that could be pushed next, each
\* tag selected as overlapping is in one of the four handled cases and
\* adjust_existing_color_range does not panic on it.
C16_UnhandledCaseUnreachable ==
    /\ panic # "unhandled_overlap"
    /\ \A range \in PushableRanges :
          range.start <= range.end =>
              \A i \in Selected(color_tracker, range) :
                  /\ ~adjust_existing_color_range(color_tracker[i], range).panic
                  /\ \/ NewContainsExisting(range, color_tracker[i])
                     \/ ExistingContainsNew(range, color_tracker[i])
                     \/ NewOverlapsTail(range, color_tracker[i])
                     \/ NewOverlapsHead(range, color_tracker[i])

\* C16 witness: a tracker holding an inner tag (Yellow 1..3 between two
\* others) for which pushable ranges exist in each of the four cases
C16_Witness ==
    /\ panic = "none"
    /\ Len(color_tracker) = 3
    /\ color_tracker[2] = ColorTag(1, 3, "Yellow")
    /\ \E r1, r2, r3, r4 \in PushableRanges :
          /\ {1, 2, 3} \subseteq Selected(color_tracker, r1)
          /\ NewContainsExisting(r1, color_tracker[2])
          /\ ExistingContainsNew(r2, color_tracker[2]) /\ r2.start < r2.end
          /\ 2 \in Selected(color_tracker, r3)
          /\ NewOverlapsTail(r3, color_tracker[2])
          /\ 2 \in Selected(color_tracker, r4)
          /\ NewOverlapsHead(r4, color_tracker[2])

----------------------------------------------------------------------------
(* SpecParser : the CSI sub-machine between input bytes *)

\* the operations a sub-machine in a terminal state stands for (ansi.rs:207-300)
OpsOfTerminal(parser) ==
    IF parser.state = "Finished" THEN CsiFinished(parser) ELSE <<Invalid>>

\* seq ends with suffix
EndsWith(seq, suffix) ==
    /\ Len(seq) >= Len(suffix)
    /\ SubSeq(seq, Len(seq) - Len(suffix) + 1, Len(seq)) = suffix

\* C17: between input bytes an active CSI sub-machine is in Params or
\* Intermediates only; CsiParser::push has never been called on a finished
\* sub-machine (no panic); and when the last byte fed took the sub-machine to
\* a terminal state, the parser is back in Empty and the operations of that
\* sequence are the last ones emitted.
C17_NeverPastFinished ==
    LET n == Len(fed)
        prev == ParserAfter(SubSeq(fed, 1, n - 1))
        parser == CsiParserPush(prev.inner.csi, fed[n])
    IN /\ panic = "none"
       /\ output_buf.tag = "Csi" =>
              output_buf.csi.state \in {"Params", "Intermediates"}
       /\ (/\ n >= 1 /\ prev.inner.tag = "Csi"
           /\ parser.state \notin {"Params", "Intermediates"}) =>
              /\ parser.state \in {"Finished", "Invalid"}
              /\ output_buf = InnerEmpty
              /\ EndsWith(emitted, OpsOfTerminal(parser))
              /\ MergeData(emitted) = MergeData(prev.output \o OpsOfTerminal(parser))

\* C17 witness: ESC [ 2 - H fed; the sub-machine was in Intermediates before
\* the H, which finished it: one operation emitted, parser back in Empty
C17_Witness ==
    /\ fed = <<ESC, LBRACKET, 50, 45, CH_H>>
    /\ ParserAfter(SubSeq(fed, 1, 4)).inner.csi.state = "Intermediates"
    /\ output_buf = InnerEmpty
    /\ Len(emitted) = 1
    /\ emitted[1].type # "Data"
    /\ panic = "none"

----------------------------------------------------------------------------
(* Spec : the erase operations and Data, step by step *)

\* the offsets whose colour is compared: every offset a tag boundary can lie
\* on within the bounds, and one past them
ColourOffsets == 0..(2 * MaxChunks + 1)

\* the cursor's buffer offset, as the arms of read() compute it, in the state
\* the last chunk was applied to
OffsetBefore == BufferPosition(before.cursor_pos, before.buf, overflow_checks).pos

\* the postcondition the ClearForwards arm is claimed to establish
ClearForwardsPost ==
    /\ buf = SubSeq(before.buf, 1, OffsetBefore)
    /\ Len(buf) = OffsetBefore
    /\ \A o \in ColourOffsets :
          ColorsAt(colors(color_tracker), o) =
              IF o >= OffsetBefore THEN {cursor_pos.color}
              ELSE ColorsAt(colors(before.color_tracker), o)
    /\ cursor_pos = before.cursor_pos

\* C18 (as claimed): after ClearForwards applied in any reachable state the
\* buffer is its former prefix of length cursor-offset, colors() gives the
\* cursor colour from the cursor offset on and the previous colour before it,
\* and the cursor is unchanged.
C18_ClearForwardsTruncatesAndRecolours ==
    Applied("ClearForwards") => panic = "none" /\ ClearForwardsPost

\* C18, restricted to a cursor offset inside the buffer: there the claimed
\* postcondition holds
C18_ClearForwardsWithinBuffer ==
    (Applied("ClearForwards") /\ OffsetBefore <= Len(before.buf)) =>
        panic = "none" /\ ClearForwardsPost

\* C18: ClearForwards applied with text after the cursor and two colours stored
C18_WithinBufferReached ==
    /\ Applied("ClearForwards")
    /\ OffsetBefore < Len(before.buf)
    /\ Len(before.color_tracker) >= 2
    /\ panic = "none"


\* C19: after ClearAll applied in any reachable state the buffer is empty and
\* colors() is the single entry (0..MAX, the cursor's colour), whatever tags
\* were stored before.
C19_ClearAllResetsBufferAndColours ==
    Applied("ClearAll") =>
        /\ panic = "none"
        /\ buf = <<>>
        /\ colors(color_tracker) =
               <<[start |-> 0, end |-> UsizeMax, color |-> cursor_pos.color]>>
        /\ cursor_pos.color = before.cursor_pos.color

\* C19 witness: ClearAll applied to a non-empty buffer with three stored tags
\* and a red cursor
C19_Witness ==
    /\ Applied("ClearAll")
    /\ before.buf # <<>>
    /\ Len(before.color_tracker) >= 3
    /\ before.cursor_pos.color = "Red"
    /\ buf = <<>>
    /\ Len(color_tracker) = 1


\* C20: after Data(bytes) applied at cursor offset p, colors() gives the colour
\* the cursor had for every offset in [p, p + len(bytes)) and the previous
\* colour for every other offset; Data does not change the cursor's colour.
C20_DataTaggedWithCursorColour ==
    (Applied("Data") /\ panic = "none") =>
        /\ cursor_pos.color = before.cursor_pos.color
        /\ \A o \in ColourOffsets :
              ColorsAt(colors(color_tracker), o) =
                  IF OffsetBefore <= o /\ o < OffsetBefore + Len(last[1].data)
                  THEN {before.cursor_pos.color}
                  ELSE ColorsAt(colors(before.color_tracker), o)

\* C20 witness: a byte written after Sgr(Red) over the second byte of
\* default-coloured text: the written span is red, the offsets before and
\* after it keep Default
C20_Witness ==
    /\ Applied("Data")
    /\ panic = "none"
    /\ before.cursor_pos.color = "Red"
    /\ OffsetBefore = 1
    /\ Len(last[1].data) = 1
    /\ Len(before.buf) = 2
    /\ ColorsAt(colors(before.color_tracker), 1) = {"Default"}
    /\ ColorsAt(colors(color_tracker), 0) = {"Default"}
    /\ ColorsAt(colors(color_tracker), 1) = {"Red"}
    /\ ColorsAt(colors(color_tracker), 2) = {"Default"}

----------------------------------------------------------------------------
(* SpecCursor : update_cursor applied to payloads of literal bytes, from a  *)
(* cursor at the origin or one step before the largest coordinate.         *)

MaxAdvances == 2    \* number of calls
MaxPayload == 3     \* length of the payload of one call

\* "a", carriage return, newline
PayloadBytes == {97, 13, NEWLINE}
Payloads == UNION {BytesOfLen(PayloadBytes, n) : n \in 0..MaxPayload}

Advance(data) ==
    /\ panic = "none"
    /\ nreads < MaxAdvances
    /\ \E moved \in {update_cursor(data, cursor_pos, overflow_checks)} :
          /\ cursor_pos' = moved.cursor
          /\ panic' = moved.panic
    /\ last' = [data |-> data, old |-> cursor_pos]
    /\ applied' = {"advance"}
    /\ nreads' = nreads + 1
    /\ UNCHANGED <<output_buf, buf, color_tracker, overflow_checks, fed,
                   emitted, painted, before, read_ret>>

InitCursor ==
    /\ output_buf = AnsiParserNew
    /\ buf = <<>>
    /\ color_tracker = ColorTrackerNew
    /\ cursor_pos \in [x : {0, UsizeMax - 1}, y : {0, UsizeMax - 1},
                       color : {"Default"}]
    /\ panic = "none"
    /\ overflow_checks \in BOOLEAN
    /\ fed = <<>>
    /\ emitted = <<>>
    /\ last = <<>>
    /\ painted = [o \in Offsets |-> "Default"]
    /\ applied = {}
    /\ nreads = 0
    /\ before = [buf |-> <<>>, cursor_pos |-> CursorStateNew,
                 color_tracker |-> ColorTrackerNew, panic |-> "none"]
    /\ read_ret = NotReading

NextCursor == \E data \in Payloads : Advance(data)

SpecCursor == InitCursor /\ [][NextCursor]_vars

\* the positions of the newline bytes of a payload
NewlinesOf(data) == {i \in 1..Len(data) : data[i] = NEWLINE}

\* the largest element of a non-empty set of numbers
Greatest(S) == CHOOSE m \in S : \A n \in S : n <= m

\* C21: after update_cursor(bytes) the row has grown by the number of newline
\* bytes, and the column is the number of bytes after the last newline if
\* there is one, else the old column plus len(bytes); carriage return counts
\* as one column like any other byte.  (Stated where the sums fit a usize.)
C21_CursorAdvance ==
    LET n == Cardinality(NewlinesOf(last.data)) IN
    (/\ applied = {"advance"}
     /\ last.old.y + n <= UsizeMax
     /\ n = 0 => last.old.x + Len(last.data) <= UsizeMax
     /\ panic = "none") =>
        /\ cursor_pos.y = last.old.y + n
        /\ cursor_pos.x = IF n > 0
                          THEN Len(last.data) - Greatest(NewlinesOf(last.data))
                          ELSE last.old.x + Len(last.data)
        /\ cursor_pos.color = last.old.color

\* C21 witness: "a", newline, carriage return applied at column 3 of row 0:
\* the row grows by one and the column is 1, the carriage return counted
C21_Witness ==
    /\ applied = {"advance"}
    /\ last.data = <<97, NEWLINE, 13>>
    /\ last.old.x = 3 /\ last.old.y = 0
    /\ cursor_pos.x = 1 /\ cursor_pos.y = 1
    /\ panic = "none"

\* C21 witness, no newline: the column moves by the payload length, carriage
\* return included
C21_WitnessNoNewline ==
    /\ applied = {"advance"}
    /\ last.data = <<97, 13, 97>>
    /\ last.old.x = 3 /\ last.old.y = 0
    /\ cursor_pos.x = 6 /\ cursor_pos.y = 0
    /\ panic = "none"

----------------------------------------------------------------------------
(* Spec : the cursor colour *)

\* the colour a rendition sets, as the claim lists them: Default for Reset,
\* the colour itself for the eight non-bright names, none for the others
ClaimedColour(sgr) ==
    IF sgr.name = "Reset" THEN <<"Default">>
    ELSE IF \E i \in 1..Len(SgrColorNames) : SgrColorNames[i] = sgr.name
         THEN <<sgr.name>>
    ELSE <<>>

\* the cursor colour after a sequence of operations, by the claim: only an
\* Sgr with a claimed colour changes it
RECURSIVE ColourAfter(_, _)
ColourAfter(color, ops) ==
    IF ops = <<>> THEN color
    ELSE ColourAfter(IF Head(ops).type = "Sgr" /\ ClaimedColour(Head(ops).sgr) # <<>>
                     THEN ClaimedColour(Head(ops).sgr)[1]
                     ELSE color,
                     Tail(ops))

\* SGR parameter values: Reset, the eight colours, the eight bright colours,
\* and unknown codes around and between them
SgrCodes == {0, 1, 5, 29, 38, 89, 98} \cup 30..37 \cup 90..97

\* C22: the cursor colour after a chunk is the colour before it, changed only
\* by the Sgr operations of a colour the claim lists (Reset gives Default);
\* and in every reachable state an Sgr of any rendition (Unknown and bright
\* ones included) leaves buffer, cursor position and tracker as they are and
\* sets the colour only if the claim lists it.
C22_ColourOnlyThroughKnownSgr ==
    panic = "none" =>
        /\ nreads > 0 =>
              cursor_pos.color = ColourAfter(before.cursor_pos.color, last)
        /\ \A code \in SgrCodes :
              LET sgr == from_usize(code)
                  st == ApplyOp(EmulatorState, Sgr(sgr), overflow_checks)
              IN /\ st.buf = buf
                 /\ st.color_tracker = color_tracker
                 /\ st.panic = "none"
                 /\ st.cursor_pos.x = cursor_pos.x
                 /\ st.cursor_pos.y = cursor_pos.y
                 /\ st.cursor_pos.color =
                        IF ClaimedColour(sgr) # <<>> THEN ClaimedColour(sgr)[1]
                        ELSE cursor_pos.color

\* C22 witness: a red cursor over a non-empty buffer, then ESC [ 5 m, an
\* unknown rendition: the colour is still red and nothing else has changed
C22_Witness ==
    /\ Applied("Sgr")
    /\ last[1].sgr.name = "Unknown"
    /\ before.cursor_pos.color = "Red"
    /\ before.buf # <<>>
    /\ EmulatorState = before

----------------------------------------------------------------------------
(* SpecDrain : the drain loop of read(), one step per position.  The       *)
(* adapter is free in what each nix::unistd::read returns: bytes, no bytes *)
(* (Ok(0)), EAGAIN, or another error.  `read_ret.at` is the position:      *)
(* "while" at the loop test, "read" after the system call, "returned"     *)
(* outside the call.                                                       *)

DrainChunks ==
    { <<97>>,                       \* "a"
      <<NEWLINE>>,                  \* "\n"
      Csi(<<51, 49>>, CH_m),        \* ESC [ 3 1 m  Sgr(Red)
      Csi(<<>>, CH_J) }             \* ESC [ J      ClearForwards

Errnos == {"EAGAIN", "EIO"}

\* read() is called: let mut ret = Ok(0)
CallRead ==
    /\ read_ret.at = "returned"
    /\ panic = "none"
    /\ read_ret' = [at |-> "while", val |-> "Ok", incoming |-> <<>>]
    /\ UNCHANGED <<output_buf, buf, color_tracker, cursor_pos, panic,
                   overflow_checks, fed, emitted, last, painted, applied,
                   nreads, before>>

\* while ret.is_ok() { ret = nix::unistd::read(..) : Ok(read_size)
SyscallOk(incoming) ==
    /\ read_ret.at = "while"
    /\ read_ret.val = "Ok"
    /\ incoming # <<>> => nreads < MaxChunks
    /\ read_ret' = [at |-> "read", val |-> "Ok", incoming |-> incoming]
    /\ UNCHANGED <<output_buf, buf, color_tracker, cursor_pos, panic,
                   overflow_checks, fed, emitted, last, painted, applied,
                   nreads, before>>

\* while ret.is_ok() { ret = nix::unistd::read(..) : Err(errno)
SyscallErr(errno) ==
    /\ read_ret.at = "while"
    /\ read_ret.val = "Ok"
    /\ read_ret' = [at |-> "read", val |-> errno, incoming |-> <<>>]
    /\ UNCHANGED <<output_buf, buf, color_tracker, cursor_pos, panic,
                   overflow_checks, fed, emitted, last, painted, applied,
                   nreads, before>>

\* let Ok(read_size) = ret : the chunk is parsed and applied, back to the test
DrainBody ==
    /\ read_ret.at = "read"
    /\ read_ret.val = "Ok"
    /\ LoopBody(read_ret.incoming)
    /\ nreads' = IF read_ret.incoming # <<>> THEN nreads + 1 ELSE nreads
    /\ read_ret' = [read_ret EXCEPT !.at = "while"]

\* let Ok(read_size) = ret else { break }; the error is logged unless EAGAIN
DrainBreak ==
    /\ read_ret.at = "read"
    /\ read_ret.val # "Ok"
    /\ read_ret' = [read_ret EXCEPT !.at = "returned"]
    /\ UNCHANGED <<output_buf, buf, color_tracker, cursor_pos, panic,
                   overflow_checks, fed, emitted, last, painted, applied,
                   nreads, before>>

InitDrain == InitCommon /\ overflow_checks = TRUE

NextDrain ==
    \/ CallRead
    \/ \E incoming \in DrainChunks \cup {<<>>} : SyscallOk(incoming)
    \/ \E errno \in Errnos : SyscallErr(errno)
    \/ DrainBody
    \/ DrainBreak

SpecDrain == InitDrain /\ [][NextDrain]_vars

\* the process keeps running; nothing is assumed of the adapter
SpecDrainFair == SpecDrain /\ WF_vars(NextDrain)

\* C23 (as claimed): every call of read() returns, whatever the adapter does
\* (a read of no bytes included), unless the process has aborted.
C23_ReadReturns ==
    (read_ret.at # "returned") ~> (read_ret.at = "returned" \/ panic # "none")

\* C23, the part on errors: a read that reports EAGAIN or any other error
\* ends the call at once and leaves parser, buffer, cursor and tracker alone
C23_ErrorEndsCall ==
    [][(read_ret.at = "read" /\ read_ret.val # "Ok") =>
          /\ read_ret'.at = "returned"
          /\ output_buf' = output_buf
          /\ EmulatorState' = EmulatorState]_vars

\* C23: a call of read() that applied a chunk and then returned on an error
C23_ReturnedAfterError ==
    /\ read_ret.at = "returned"
    /\ read_ret.val = "EIO"
    /\ buf # <<>>
    /\ panic = "none"

----------------------------------------------------------------------------
(* SpecTracker : the stored tags *)

\* C24: after push_range calls with non-empty ranges only, the stored tags
\* partition [0, MAX): none is empty, the first starts at 0, starts are
\* pairwise distinct, each stored end is the next stored start, the last end
\* is MAX, and the stored ends are the ends colors() reports.
C24_StoredTagsPartition ==
    (panic = "none" /\ "empty" \notin applied) =>
        LET n == Len(color_tracker) IN
        /\ n >= 1
        /\ color_tracker[1].start = 0
        /\ color_tracker[n].end = UsizeMax
        /\ \A i \in 1..n : color_tracker[i].start < color_tracker[i].end
        /\ \A i, j \in 1..n :
              i # j => color_tracker[i].start # color_tracker[j].start
        /\ \A i \in 1..(n - 1) : color_tracker[i].end = color_tracker[i + 1].start
        /\ colors(color_tracker) = color_tracker

\* C24 witness: four stored tags after non-empty pushes, an inner one among
\* them that a later push has cut at both ends
C24_Witness ==
    /\ panic = "none"
    /\ applied = {"nonempty"}
    /\ Len(color_tracker) = 4
    /\ color_tracker[2].color = "Yellow"
    /\ color_tracker[3].color = "Blue"
    /\ color_tracker[3] = ColorTag(2, 3, "Blue")

----------------------------------------------------------------------------
(* Spec : runs that only append *)

AppendOnlyKinds == {"Data", "Sgr", "Invalid"}

\* C25: in a run in which only Data, Sgr and Invalid operations have been
\* applied, nothing has aborted, the offset computed from the cursor equals
\* the buffer length (so the next Data appends), it did so before the last
\* chunk, and the buffer is the buffer before the last chunk followed by that
\* chunk's Data payloads in order -- by induction, all payloads concatenated.
C25_AppendOnlyRuns ==
    applied \subseteq AppendOnlyKinds =>
        /\ panic = "none"
        /\ BufferPosition(cursor_pos, buf, overflow_checks).pos = Len(buf)
        /\ cursor_to_buffer_position(cursor_pos, buf) = Len(buf)
        /\ nreads > 0 =>
              /\ OffsetBefore = Len(before.buf)
              /\ buf = before.buf \o DataBytes(last)

\* C25 witness: "bc", newline, an Sgr and an Invalid applied in some order
\* with the newline last of the Data: the buffer is "bc\n", the cursor on row 1
C25_Witness ==
    /\ applied = AppendOnlyKinds
    /\ buf = <<98, 99, NEWLINE>>
    /\ cursor_pos.x = 0 /\ cursor_pos.y = 1
    /\ panic = "none"

----------------------------------------------------------------------------
(* SpecParser : chunked against whole, operation by operation *)

\* C26: for the stream fed so far, however it was cut into chunks, the
\* operations returned chunk by chunk and those of one push of the whole
\* stream have the same length once adjacent Data are merged and agree at
\* every position; the non-Data operations are the same in the same order,
\* the literal bytes are the same, and chunking never returns fewer
\* operations than the whole push: it only cuts Data.
C26_ChunkingOnlyCutsData ==
    LET whole == WholePush(fed)
        a == MergeData(emitted)
        b == MergeData(whole)
    IN /\ Len(a) = Len(b)
       /\ \A i \in 1..Len(a) :
             /\ a[i].type = b[i].type
             /\ a[i].type # "Data" => a[i] = b[i]
             /\ a[i].type = "Data" => a[i].data = b[i].data
       /\ NonData(emitted) = NonData(whole)
       /\ DataBytes(emitted) = DataBytes(whole)
       /\ Len(emitted) >= Len(whole)

\* C26 witness: ESC [ H followed by "2-" with a chunk boundary between the two
\* literal bytes: SetCursorPos first in both, then two Data where one push
\* gives one
C26_Witness ==
    /\ fed = <<ESC, LBRACKET, CH_H, 50, 45>>
    /\ Len(emitted) = 3
    /\ emitted[1].type = "SetCursorPos"
    /\ emitted[2] = Data(<<50>>)
    /\ emitted[3] = Data(<<45>>)
    /\ WholePush(fed) = <<emitted[1], Data(<<50, 45>>)>>

----------------------------------------------------------------------------
(* Spec, SpecParser : empty ranges and empty payloads *)

\* no Data operation of a sequence has an empty payload
NoEmptyData(ops) ==
    \A i \in 1..Len(ops) : ops[i].type = "Data" => ops[i].data # <<>>

\* C27 (as claimed): the operations of every chunk hold no Data with an empty
\* payload, and the tracker is never given an empty range: push_range stores
\* the range it is given as a tag, so no stored tag is ever empty.
C27_NoEmptyRangePushed ==
    /\ NoEmptyData(last)
    /\ \A i \in 1..Len(color_tracker) :
          color_tracker[i].start < color_tracker[i].end

\* C27, the part on the parser alone (SpecParser): whatever the stream and
\* its cut into push calls, no Data returned has an empty payload
C27_ParserNeverEmitsEmptyData == NoEmptyData(emitted)

\* C27, parser part: Data operations were returned around an escape that cut
\* the literal run, the stream ending inside a sequence
C27_DataAroundEscapeReached ==
    /\ fed = <<50, ESC, 45, 50, ESC>>
    /\ DataBytes(emitted) = <<50, 50>>
    /\ NoEmptyData(emitted)

----------------------------------------------------------------------------
(* SpecCsi : one CsiParser fed byte by byte.  The sub-machine is kept in   *)
(* output_buf as AnsiParserInner::Csi(parser).                             *)

MaxCsiPushes == 3   \* number of bytes pushed

\* the bytes at the edges of the three classes, and bytes outside them
CsiBytes == {0, ESC, 31, 32, 47, 48, 63, 64, 125, 126, 127, 255}

CsiPush(b) ==
    /\ panic = "none"
    /\ nreads < MaxCsiPushes
    /\ \E parser \in {CsiParserPush(output_buf.csi, b)} :
          /\ output_buf' = InnerCsi(parser)
          /\ panic' = IF parser.state = "Panicked" THEN "csi_finished_push"
                      ELSE "none"
    /\ last' = [byte |-> b, old |-> output_buf.csi]
    /\ applied' = {"csi_push"}
    /\ nreads' = nreads + 1
    /\ UNCHANGED <<buf, color_tracker, cursor_pos, overflow_checks, fed,
                   emitted, painted, before, read_ret>>

InitCsi ==
    /\ output_buf = InnerCsi(CsiParserNew)
    /\ buf = <<>>
    /\ color_tracker = ColorTrackerNew
    /\ cursor_pos = CursorStateNew
    /\ panic = "none"
    /\ overflow_checks = TRUE
    /\ fed = <<>>
    /\ emitted = <<>>
    /\ last = <<>>
    /\ painted = [o \in Offsets |-> "Default"]
    /\ applied = {}
    /\ nreads = 0
    /\ before = [buf |-> <<>>, cursor_pos |-> CursorStateNew,
                 color_tracker |-> ColorTrackerNew, panic |-> "none"]
    /\ read_ret = NotReading

NextCsi == \E b \in CsiBytes : CsiPush(b)

SpecCsi == InitCsi /\ [][NextCsi]_vars

\* the byte-class table of the claim: the sub-machine after byte b
Table(p, b) ==
    LET param == 48 <= b /\ b <= 63            \* 0x30-0x3F
        intermediate == 32 <= b /\ b <= 47     \* 0x20-0x2F
        terminator == 64 <= b /\ b <= 125      \* 0x40-0x7D
    IN CASE p.state = "Params" ->
               IF param
               THEN [state |-> "Params", fin |-> p.fin,
                     params |-> p.params \o <<b>>,
                     intermediates |-> p.intermediates]
               ELSE IF intermediate
               THEN [state |-> "Intermediates", fin |-> p.fin,
                     params |-> p.params,
                     intermediates |-> p.intermediates \o <<b>>]
               ELSE IF terminator
               THEN [state |-> "Finished", fin |-> b, params |-> p.params,
                     intermediates |-> p.intermediates]
               ELSE [state |-> "Invalid", fin |-> p.fin, params |-> p.params,
                     intermediates |-> p.intermediates]
         [] p.state = "Intermediates" ->
               IF intermediate
               THEN [state |-> "Intermediates", fin |-> p.fin,
                     params |-> p.params,
                     intermediates |-> p.intermediates \o <<b>>]
               ELSE IF terminator
               THEN [state |-> "Finished", fin |-> b, params |-> p.params,
                     intermediates |-> p.intermediates]
               ELSE [state |-> "Invalid", fin |-> p.fin, params |-> p.params,
                     intermediates |-> p.intermediates]
         [] p.state = "Invalid" ->
               [state |-> IF terminator THEN "InvalidFinished" ELSE "Invalid",
                fin |-> p.fin, params |-> p.params,
                intermediates |-> p.intermediates]

TableStates == {"Params", "Intermediates", "Invalid"}

\* C28: from every reachable sub-machine in Params, Intermediates or Invalid,
\* CsiParser::push of any byte 0x00-0xFF gives the sub-machine the byte-class
\* table gives, and the byte pushed last did so.
C28_CsiByteClassTable ==
    /\ output_buf.csi.state \in TableStates =>
          \A b \in 0..255 : CsiParserPush(output_buf.csi, b) = Table(output_buf.csi, b)
    /\ (applied = {"csi_push"} /\ last.old.state \in TableStates) =>
          output_buf.csi = Table(last.old, last.byte)

\* C28 witness: a parameter, then an intermediate, then a parameter byte, which
\* is illegal in Intermediates: the sub-machine is in Invalid, where 0x7D ends
\* the sequence and 0x7E does not
C28_Witness ==
    /\ applied = {"csi_push"}
    /\ last.old.state = "Intermediates"
    /\ last.old.params = <<48>>
    /\ last.old.intermediates = <<47>>
    /\ last.byte = 63
    /\ output_buf.csi.state = "Invalid"
    /\ CsiParserPush(output_buf.csi, 125).state = "InvalidFinished"
    /\ CsiParserPush(output_buf.csi, 126).state = "Invalid"

============================================================================
